---- MODULE Spec2Model ----
(***************************************************************************)
(* Model of frontend/gestion/app/vite.config.ts: the module body builds    *)
(* one configuration record (plugins, resolve.alias, server.host,          *)
(* server.allowedHosts) and hands it to the build tool through             *)
(* defineConfig.  The build tool's use of the record (listening, the Host  *)
(* check, alias resolution) is not code of this repository; it is modelled *)
(* as the specification describes it.                                      *)
(***************************************************************************)
EXTENDS Naturals, Sequences, FiniteSets

VARIABLES pc, metaUrl, config, loads, listening, reqLog, resLog

vars == <<pc, metaUrl, config, loads, listening, reqLog, resLog>>

(* ------------------------------ bounds --------------------------------- *)

MaxLoads == 2
MaxRequests == 2
MaxResolutions == 2

(* --------------------- characters, segments, paths --------------------- *)

\* A path segment is a sequence of one-character strings.
Dot == <<".">>
DotDot == <<".", ".">>
SegSrc == <<"s", "r", "c">>
SegApp == <<"a", "p", "p">>
SegGestion == <<"g", "e", "s", "t", "i", "o", "n">>
SegMyAppEnc == <<"m", "y", "%", "2", "0", "a", "p", "p">>
SegCfg == <<"v", "i", "t", "e", ".", "c", "o", "n", "f", "i", "g", ".", "t", "s">>
SegMain == <<"m", "a", "i", "n", ".", "t", "s">>
SegTmp == <<"t", "m", "p">>

FileUrl(segs) == [protocol |-> "file:", hostname |-> "", path |-> segs]

\* The locations the configuration file can be loaded from (import.meta.url).
MetaUrls ==
    { FileUrl(<<SegCfg>>),
      FileUrl(<<SegApp, SegCfg>>),
      FileUrl(<<SegMyAppEnc, SegCfg>>),
      FileUrl(<<SegGestion, SegApp, SegCfg>>) }

\* Working directories of the process.
Cwds == { <<SegApp>>, <<SegTmp>> }

Front(s) == SubSeq(s, 1, Len(s) - 1)

RECURSIVE RemoveDotSegments(_, _)
RemoveDotSegments(segs, acc) ==
    IF segs = <<>> THEN acc
    ELSE IF Head(segs) = Dot THEN RemoveDotSegments(Tail(segs), acc)
    ELSE IF Head(segs) = DotDot
         THEN RemoveDotSegments(Tail(segs), IF acc = <<>> THEN acc ELSE Front(acc))
    ELSE RemoveDotSegments(Tail(segs), Append(acc, Head(segs)))

\* new URL(ref, base): a relative reference resolved against a base URL.
\* ref is [rooted, segs]: './src' is [rooted |-> FALSE, segs |-> <<Dot, SegSrc>>].
NewURL(ref, base) ==
    [protocol |-> base.protocol,
     hostname |-> base.hostname,
     path |-> IF ref.rooted
              THEN RemoveDotSegments(ref.segs, <<>>)
              ELSE RemoveDotSegments(Front(base.path) \o ref.segs, <<>>)]

HexPairs == { <<"2", "0">>, <<"2", "5">>, <<"2", "F">> }

HexChar(p) ==
    IF p = <<"2", "0">> THEN " "
    ELSE IF p = <<"2", "5">> THEN "%"
    ELSE "/"

RECURSIVE PercentDecode(_)
PercentDecode(seg) ==
    IF seg = <<>> THEN <<>>
    ELSE IF Head(seg) = "%" /\ Len(seg) >= 3 /\ SubSeq(seg, 2, 3) \in HexPairs
         THEN <<HexChar(SubSeq(seg, 2, 3))>> \o PercentDecode(SubSeq(seg, 4, Len(seg)))
    ELSE <<Head(seg)>> \o PercentDecode(Tail(seg))

HasEncodedSlash(seg) ==
    \E i \in 1..Len(seg) :
        i + 2 <= Len(seg) /\ seg[i] = "%" /\ seg[i + 1] = "2" /\ seg[i + 2] = "F"

\* fileURLToPath(url) on a POSIX host: an absolute path, or a thrown error.
FileURLToPath(url) ==
    IF \/ url.protocol # "file:"
       \/ url.hostname # ""
       \/ \E i \in 1..Len(url.path) : HasEncodedSlash(url.path[i])
    THEN [ok |-> FALSE, absolute |-> FALSE, segs |-> <<>>]
    ELSE [ok |-> TRUE, absolute |-> TRUE,
          segs |-> [i \in 1..Len(url.path) |-> PercentDecode(url.path[i])]]

(* ------------------------ the configuration record --------------------- *)

\* A faulty variant: the two plugins in the other order.
PluginsSwapped == <<"vueDevTools", "vue">>

plugins == <<"vue", "vueDevTools">>

\* A faulty variant: '/src' in place of './src'.
AliasTargetRooted(url, dir) ==
    FileURLToPath(NewURL([rooted |-> TRUE, segs |-> <<SegSrc>>], url))

\* A faulty variant: path.resolve('src'), which resolves against the working
\* directory of the process instead of the location of the file.
AliasTargetCwd(url, dir) ==
    [ok |-> TRUE, absolute |-> TRUE, segs |-> Append(dir, SegSrc)]

AliasTarget(url, dir) ==
    FileURLToPath(NewURL([rooted |-> FALSE, segs |-> <<Dot, SegSrc>>], url))

\* A faulty variant: the loopback address in place of the wildcard.
HostLoopback == "127.0.0.1"

host == "0.0.0.0"

\* A faulty variant: the custom local domain left out.
AllowedHostsShort == <<"localhost", "127.0.0.1">>

allowedHosts == <<"localhost", "127.0.0.1", "gestion.127.0.0.1.nip.io">>

\* defineConfig is the identity on a configuration object.
defineConfig(c) == c

BuildConfig(url, dir) ==
    defineConfig(
        [plugins |-> plugins,
         alias |-> [k \in {"@"} |-> AliasTarget(url, dir)],
         host |-> host,
         allowedHosts |-> allowedHosts])

NoConfig == [plugins |-> <<>>]

(* ---------------- the build tool's use of the record ------------------ *)

Interfaces == {"lo", "eth0"}

\* Host header values of incoming requests.
Hosts == {"gestion.127.0.0.1.nip.io", "localhost", "evil.example.com", "192.168.1.10"}

\* A module import: an optional alias prefix and the path after it.
Importees ==
    { [prefix |-> "@", rest |-> <<SegMain>>],
      [prefix |-> "@", rest |-> <<SegApp, SegMain>>],
      [prefix |-> "vue", rest |-> <<>>] }

\* The interfaces a listener bound to the address h accepts connections on.
BoundInterfaces(h) == IF h = "0.0.0.0" THEN Interfaces ELSE {"lo"}

\* The Host check: membership in the allow-list.
IsHostAllowed(list, h) == \E i \in 1..Len(list) : list[i] = h

\* Alias resolution: a matching prefix is replaced by its target directory.
ResolveAlias(alias, imp) ==
    IF imp.prefix \in DOMAIN alias
    THEN [aliased |-> TRUE, importee |-> imp,
          path |-> [alias[imp.prefix] EXCEPT !.segs = @ \o imp.rest]]
    ELSE [aliased |-> FALSE, importee |-> imp,
          path |-> [ok |-> FALSE, absolute |-> FALSE, segs |-> <<>>]]

(* ------------------------------- state --------------------------------- *)

Init ==
    /\ pc = "start"
    /\ metaUrl \in MetaUrls
    /\ config = NoConfig
    /\ loads = 0
    /\ listening = {}
    /\ reqLog = <<>>
    /\ resLog = <<>>

\* The module body with a fault: it also opens a listener.
LoadAndListen ==
    /\ pc = "start"
    /\ \E dir \in Cwds : config' = BuildConfig(metaUrl, dir)
    /\ loads' = loads + 1
    /\ pc' = "loaded"
    /\ listening' = {"lo"}
    /\ UNCHANGED <<metaUrl, reqLog, resLog>>

\* The module body runs: the record is built (in whatever working directory
\* the process is in) and handed over.
Load ==
    /\ pc = "start"
    /\ \E dir \in Cwds : config' = BuildConfig(metaUrl, dir)
    /\ loads' = loads + 1
    /\ pc' = "loaded"
    /\ UNCHANGED <<metaUrl, listening, reqLog, resLog>>

\* The build tool may evaluate the module again while it runs (it re-reads
\* its configuration when it restarts its server); the module body is the
\* same code, and nothing in the file prevents it.
Reload ==
    /\ pc = "serving"
    /\ loads < MaxLoads
    /\ \E dir \in Cwds : config' = BuildConfig(metaUrl, dir)
    /\ loads' = loads + 1
    /\ UNCHANGED <<pc, metaUrl, listening, reqLog, resLog>>

\* The dev server binds config.host.
Listen ==
    /\ pc = "loaded"
    /\ listening' = BoundInterfaces(config.host)
    /\ pc' = "serving"
    /\ UNCHANGED <<metaUrl, config, loads, reqLog, resLog>>

\* A request arrives on a bound interface and passes the Host check or not.
HandleRequest ==
    /\ pc = "serving"
    /\ Len(reqLog) < MaxRequests
    /\ \E h \in Hosts, i \in listening :
          reqLog' = Append(reqLog,
              [host |-> h, iface |-> i,
               accepted |-> IsHostAllowed(config.allowedHosts, h)])
    /\ UNCHANGED <<pc, metaUrl, config, loads, listening, resLog>>

\* A module import is resolved through the alias table.
Resolve ==
    /\ pc = "serving"
    /\ Len(resLog) < MaxResolutions
    /\ \E imp \in Importees :
          resLog' = Append(resLog, ResolveAlias(config.alias, imp))
    /\ UNCHANGED <<pc, metaUrl, config, loads, listening, reqLog>>

\* The process exits; the record goes with it.
Exit ==
    /\ pc \in {"loaded", "serving"}
    /\ pc' = "exit"
    /\ config' = NoConfig
    /\ listening' = {}
    /\ UNCHANGED <<metaUrl, loads, reqLog, resLog>>

Next ==
    \/ Load
    \/ Reload
    \/ Listen
    \/ HandleRequest
    \/ Resolve
    \/ Exit

Spec == Init /\ [][Next]_vars
(* ------------------------------ properties ----------------------------- *)

Loaded == config # NoConfig

SetOf(list) == { list[i] : i \in 1..Len(list) }

\* C2: the allow-list the configuration declares is exactly {localhost,
\* 127.0.0.1, gestion.127.0.0.1.nip.io}; with it every request with Host
\* gestion.127.0.0.1.nip.io is accepted and every request with Host
\* evil.example.com is rejected.
C2_AllowedHostsScenario ==
    /\ Loaded =>
          SetOf(config.allowedHosts) =
              {"localhost", "127.0.0.1", "gestion.127.0.0.1.nip.io"}
    /\ \A i \in 1..Len(reqLog) :
          /\ reqLog[i].host = "gestion.127.0.0.1.nip.io" => reqLog[i].accepted
          /\ reqLog[i].host = "evil.example.com" => ~reqLog[i].accepted

\* Both requests of the scenario have been handled.
C2_Witness ==
    \E i, j \in 1..Len(reqLog) :
        /\ reqLog[i].host = "gestion.127.0.0.1.nip.io" /\ reqLog[i].accepted
        /\ reqLog[j].host = "evil.example.com" /\ ~reqLog[j].accepted

\* C3: once loaded, the record keeps the values it had immediately after
\* load through every later step (requests, resolutions, listening, a
\* re-evaluation of the module), until the process exits.
C3_ReadOnlyAfterLoad ==
    [][(Loaded /\ pc' # "exit") => config' = config]_vars

\* Requests, resolutions and a second evaluation have all happened.
C3_Witness ==
    /\ pc = "serving"
    /\ Loaded
    /\ loads > 1
    /\ reqLog # <<>>
    /\ resLog # <<>>

\* The 'src' directory next to the configuration file.
SrcNextToConfig ==
    [ok |-> TRUE, absolute |-> TRUE,
     segs |-> Append(Front(FileURLToPath(metaUrl).segs), SegSrc)]

\* C4: the alias table maps exactly the prefix '@', to one absolute
\* directory path, the 'src' directory next to the configuration file, and
\* every resolution of an '@' import, whatever came before it, is that
\* directory followed by the rest of the import.
C4_AliasStable ==
    /\ Loaded =>
          /\ DOMAIN config.alias = {"@"}
          /\ config.alias["@"] = SrcNextToConfig
    /\ \A i \in 1..Len(resLog) :
          resLog[i].importee.prefix = "@" =>
              /\ resLog[i].aliased
              /\ resLog[i].path.ok
              /\ resLog[i].path.absolute
              /\ resLog[i].path.segs =
                     SrcNextToConfig.segs \o resLog[i].importee.rest

\* Two different '@' imports resolved, the second after a re-evaluation,
\* from a configuration file whose directory name is percent-encoded in
\* its URL.
C4_Witness ==
    /\ metaUrl = FileUrl(<<SegMyAppEnc, SegCfg>>)
    /\ loads > 1
    /\ Len(resLog) >= 2
    /\ resLog[1].importee.prefix = "@"
    /\ resLog[2].importee.prefix = "@"
    /\ resLog[1].importee # resLog[2].importee

\* C5: with the bind host the configuration declares ('0.0.0.0'), the
\* serving dev server accepts connections on every network interface, not
\* only on loopback.
C5_AllInterfaces ==
    pc = "serving" => listening = Interfaces

\* A request that arrived on a non-loopback interface has been handled.
C5_Witness ==
    \E i \in 1..Len(reqLog) : reqLog[i].iface = "eth0"

\* C7: the plugins field is the sequence of exactly two plugins, the Vue
\* integration plugin first and the Vue developer-tooling plugin second.
C7_Plugins ==
    Loaded =>
        /\ Len(config.plugins) = 2
        /\ config.plugins[1] = "vue"
        /\ config.plugins[2] = "vueDevTools"

\* The record has just been loaded.
C7_Witness ==
    pc = "loaded" /\ Loaded /\ Len(config.plugins) > 0

\* C8: a step that evaluates the module changes nothing but the record (and
\* the count of evaluations and the position of control): no listener is
\* opened, no request or resolution is recorded.
C8_LoadFrame ==
    [][loads' # loads =>
          /\ listening' = listening
          /\ reqLog' = reqLog
          /\ resLog' = resLog
          /\ metaUrl' = metaUrl]_vars

\* Straight after the first load: a record, and nothing else has happened.
C8_Witness ==
    /\ pc = "loaded"
    /\ loads = 1
    /\ config.host = "0.0.0.0"
    /\ listening = {}
    /\ reqLog = <<>>
    /\ resLog = <<>>
====
